---- MODULE Spec2Model ----
(***************************************************************************)
(* A model of the DNS-over-HTTPS forwarding proxy of doh_service.go:       *)
(* RunDNS (bootstrap with retry, handler construction, listener goroutine, *)
(* stop function) and SecHandler.ServeDNS / QueryOverHTTPS (self-host      *)
(* shortcut, NameCache, forward path), one handler goroutine per received  *)
(* datagram.                                                               *)
(*                                                                         *)
(* Library behaviour the program relies on is modelled at its call sites:  *)
(*   dns.Msg.SetReply   copies Id, then Question[0] (when there is one)    *)
(*                      into the receiver, in place; Answer is untouched;  *)
(*   dns.HandleFailed   writes a fresh SERVFAIL reply for the request;     *)
(*   cache.SetDefault   stores with expiration now + the default window;   *)
(*   cache.Get          finds an item unless now > its expiration;         *)
(*   dns.Server         ListenAndServe binds, sets started, serves until   *)
(*                      Shutdown clears started (then returns nil) or the  *)
(*                      socket fails (then returns the error); Shutdown    *)
(*                      on a server that is not started returns an error.  *)
(* Time is counted in ticks of half an hour.                               *)
(***************************************************************************)
EXTENDS Integers, Sequences, FiniteSets, TLC

\* ------------------------------------------------------------------ bounds
\* Handler goroutines (datagrams received) in one run of the server.
MaxQueries == 2
\* The clock stops ticking here.
MaxClock == 3
\* stopFn invocations in one run.
MaxStops == 2
\* Datagrams received in the specification of the server's whole life.
LifeQueries == 1

\* ------------------------------------------------------- program constants
\* The loop's bound off by one, either way.
RetryLimitOneMore == 6 + 1
RetryLimitOneLess == 6 - 1
\* for i := 1; i < 6; i++
RetryLimit == 6
\* cache.New(1*time.Hour, ...): the default expiration, in ticks.
CacheWindow == 2

CLOUDFLARE_DOH_HOST == "cloudflare-dns.com."

\* ------------------------------------------------------------------ values
Slots == 1..MaxQueries
OtherName == "example.com."
ExtraName == "other.org."
\* A name of a request that the server could read but Pack rejects.
BadName == "unpackable."
Names == {CLOUDFLARE_DOH_HOST, OtherName}
TypeA == "A"
QTypes == {TypeA, "AAAA"}
\* Addresses the plain-DNS bootstrap may resolve the upstream hostname to.
HostAddrs == {"h1", "h2"}
\* Answer data the upstream may return for a forwarded query.
Answers == {"a1", "a2"}

Question(n, t) == [name |-> n, qtype |-> t]

\* The Question sections of the datagrams the listener may receive: none,
\* one question, a first question followed by a second one, or one question
\* that cannot be packed again.
QuestionLists ==
    {<<>>}
    \cup {<<Question(n, t)>> : n \in Names, t \in QTypes}
    \cup {<<Question(n, TypeA), Question(ExtraName, "AAAA")>> : n \in Names}
    \cup {<<Question(BadName, t)>> : t \in QTypes}

Msg(i, qs, an, rc) == [id |-> i, question |-> qs, answer |-> an, rcode |-> rc]
NilMsg == Msg(0 - 1, <<>>, "none", "nil")

\* The strings a cache key can be, and the empty slot of the cache's map.
CacheKeys == Names \cup {ExtraName, BadName}
NoItem == [obj |-> 0, exp |-> 0 - 1]
EmptyCache == [n \in CacheKeys |-> NoItem]

VARIABLES
    \* RunDNS
    startPc,      \* position of RunDNS: idle, resolve, sleep, retry, check, construct,
                  \* spawn, return, returned
    i,            \* the retry loop's counter
    h,            \* h of RunDNS: the bootstrap reply, NilMsg before it
    e,            \* e of RunDNS: TRUE when the last getDohHostAddr failed
    bootLog,      \* history: the attempts and sleeps of bootstrap, in order
    startResult,  \* what RunDNS returned: none, ok (stop function, nil), error (nil, error)
    handlerMade,  \* the SecHandler and its NameCache exist
    \* dns.Server and the listener goroutine
    lsnPc,        \* none, spawned, serving, exited
    lsnErr,       \* what ListenAndServe returned: none, nil, err
    srvStarted,   \* dns.Server's started flag
    bound,        \* the UDP socket is bound
    errHandlerCalls,
    stopLog,      \* history: the result of each stopFn call that returned
    stopPc,       \* idle, or draining while Shutdown waits for the serve loop
    served,       \* history: a datagram was dispatched after a stopFn call returned
    \* handlers
    pc,           \* position of handler q in ServeDNS
    query,        \* r: the request handler q serves
    path,         \* the branch of ServeDNS taken: host, hit, miss, relay
    target,       \* the message handler q replies with: 0 for s.Host, k for resp[k]
    result,       \* the outcome of handler q's QueryOverHTTPS
    written,      \* history: the messages handler q wrote to its requester
    calls,        \* history: the HTTPS POSTs made for handler q
    gets, sets,   \* history: the NameCache reads and writes of handler q
    steps,        \* history: the steps of QueryOverHTTPS handler q ran
    startedBefore, doneBefore,  \* history: the handlers dispatched / finished before q was
    getAt, setAt, \* history: the time of handler q's cache read / write
    \* shared memory
    Host,         \* the message s.Host points to
    resp,         \* resp[q]: the message QueryOverHTTPS allocated in handler q
    NameCache,    \* name -> [obj, exp] for the items of the cache's map
    now

lifeVars == <<startPc, i, h, e, bootLog, startResult, handlerMade>>
srvVars == <<lsnPc, lsnErr, srvStarted, bound, errHandlerCalls, stopLog, stopPc, served>>
hdlVars == <<pc, query, path, target, result, written, calls, gets, sets, steps,
             startedBefore, doneBefore, getAt, setAt>>
memVars == <<Host, resp, NameCache>>
vars == <<lifeVars, srvVars, hdlVars, memVars, now>>

Init ==
    /\ startPc = "idle" /\ i = 0 /\ h = NilMsg /\ e = FALSE
    /\ bootLog = <<>> /\ startResult = "none" /\ handlerMade = FALSE
    /\ lsnPc = "none" /\ lsnErr = "none" /\ srvStarted = FALSE /\ bound = FALSE
    /\ errHandlerCalls = 0 /\ stopLog = <<>> /\ stopPc = "idle" /\ served = FALSE
    /\ pc = [q \in Slots |-> "idle"]
    /\ query = [q \in Slots |-> NilMsg]
    /\ path = [q \in Slots |-> "none"]
    /\ target = [q \in Slots |-> 0]
    /\ result = [q \in Slots |-> "none"]
    /\ written = [q \in Slots |-> <<>>]
    /\ calls = [q \in Slots |-> 0]
    /\ gets = [q \in Slots |-> 0]
    /\ sets = [q \in Slots |-> 0]
    /\ steps = [q \in Slots |-> <<>>]
    /\ startedBefore = [q \in Slots |-> {}]
    /\ doneBefore = [q \in Slots |-> {}]
    /\ getAt = [q \in Slots |-> 0 - 1]
    /\ setAt = [q \in Slots |-> 0 - 1]
    /\ Host = NilMsg
    /\ resp = [q \in Slots |-> NilMsg]
    /\ NameCache = EmptyCache
    /\ now = 0

\* ------------------------------------------------------------------ RunDNS

\* getDohHostAddr: one plain-DNS exchange for the upstream hostname; it
\* returns a reply and no error, or an error.
getDohHostAddr(ok, addr) ==
    IF ok
    THEN [r |-> Msg(0, <<Question(CLOUDFLARE_DOH_HOST, TypeA)>>, addr, "NOERROR"), err |-> FALSE]
    ELSE [r |-> NilMsg, err |-> TRUE]

\* The embedding process calls RunDNS.
StartCall ==
    /\ startPc = "idle"
    /\ startPc' = "resolve"
    /\ UNCHANGED <<i, h, e, bootLog, startResult, handlerMade, srvVars, hdlVars, memVars, now>>

\* h, e := getDohHostAddr(); if e != nil, enter the retry loop with i := 1.
FirstAttempt ==
    /\ startPc = "resolve"
    /\ \E ok \in BOOLEAN, addr \in HostAddrs :
          LET got == getDohHostAddr(ok, addr) IN
          /\ h' = got.r
          /\ e' = got.err
          /\ bootLog' = Append(bootLog, IF got.err THEN "fail" ELSE "ok")
          /\ IF got.err
             THEN /\ i' = 1
                  /\ startPc' = "sleep"
             ELSE /\ i' = i
                  /\ startPc' = "construct"
    /\ UNCHANGED <<startResult, handlerMade, srvVars, hdlVars, memVars, now>>

\* The loop's test i < 6 and, inside it, time.Sleep(time.Second * 1); when the
\* test fails the loop is left.
RetrySleep ==
    /\ startPc = "sleep"
    /\ IF i < RetryLimit
       THEN /\ bootLog' = Append(bootLog, "sleep")
            /\ startPc' = "retry"
       ELSE /\ startPc' = "check"
            /\ UNCHANGED bootLog
    /\ UNCHANGED <<i, h, e, startResult, handlerMade, srvVars, hdlVars, memVars, now>>

\* h, e = getDohHostAddr() in the loop: break on success, else i++.
RetryAttempt ==
    /\ startPc = "retry"
    /\ \E ok \in BOOLEAN, addr \in HostAddrs :
          LET got == getDohHostAddr(ok, addr) IN
          /\ h' = got.r
          /\ e' = got.err
          /\ bootLog' = Append(bootLog, IF got.err THEN "fail" ELSE "ok")
          /\ IF got.err
             THEN /\ i' = i + 1
                  /\ startPc' = "sleep"
             ELSE /\ i' = i
                  /\ startPc' = "check"
    /\ UNCHANGED <<startResult, handlerMade, srvVars, hdlVars, memVars, now>>

\* The test after the loop left out.
GivesUpNever(err) == FALSE
\* After the loop: if e != nil { return nil, newErr(...) }
GivesUp(err) == err

LoopExit ==
    /\ startPc = "check"
    /\ IF GivesUp(e)
       THEN /\ startResult' = "error"
            /\ startPc' = "returned"
       ELSE /\ startPc' = "construct"
            /\ UNCHANGED startResult
    /\ UNCHANGED <<i, h, e, bootLog, handlerMade, srvVars, hdlVars, memVars, now>>

\* handler := SecHandler{"UDP", h, cache.New(...)}; srv := new(dns.Server) ...
Construct ==
    /\ startPc = "construct"
    /\ handlerMade' = TRUE
    /\ Host' = h
    /\ NameCache' = EmptyCache
    /\ startPc' = "spawn"
    /\ UNCHANGED <<i, h, e, bootLog, startResult, srvVars, hdlVars, resp, now>>

\* go func() { ... }()
Spawn ==
    /\ startPc = "spawn"
    /\ lsnPc' = "spawned"
    /\ startPc' = "return"
    /\ UNCHANGED <<i, h, e, bootLog, startResult, handlerMade,
                   lsnErr, srvStarted, bound, errHandlerCalls, stopLog, stopPc, served,
                   hdlVars, memVars, now>>

\* return func() error { ... }, nil
StartReturn ==
    /\ startPc = "return"
    /\ startResult' = "ok"
    /\ startPc' = "returned"
    /\ UNCHANGED <<i, h, e, bootLog, handlerMade, srvVars, hdlVars, memVars, now>>

RunDNS ==
    \/ StartCall \/ FirstAttempt \/ RetrySleep \/ RetryAttempt \/ LoopExit
    \/ Construct \/ Spawn \/ StartReturn


\* ------------------------------------------- the listener goroutine and stopFn

\* The goroutine without its err != nil test.
CallsErrHandlerAlways(err) == TRUE
\* if err := srv.ListenAndServe(); err != nil { errHandler(err) }
CallsErrHandler(err) == err # "nil"

\* ListenAndServe returns err and the goroutine ends.
ListenerEnds(err) ==
    /\ lsnPc' = "exited"
    /\ lsnErr' = err
    /\ errHandlerCalls' = IF CallsErrHandler(err) THEN errHandlerCalls + 1 ELSE errHandlerCalls

\* srv.ListenAndServe() up to the serve loop: the bind succeeds and the server
\* is started, or it fails, ListenAndServe returns the error and the goroutine
\* hands it to errHandler.
ListenBind ==
    /\ lsnPc = "spawned"
    /\ \E ok \in BOOLEAN :
          IF ok
          THEN /\ bound' = TRUE
               /\ srvStarted' = TRUE
               /\ lsnPc' = "serving"
               /\ UNCHANGED <<lsnErr, errHandlerCalls>>
          ELSE /\ ListenerEnds("err")
               /\ UNCHANGED <<bound, srvStarted>>
    /\ UNCHANGED <<lifeVars, stopLog, stopPc, served, hdlVars, memVars, now>>

\* The serve loop's read fails while the server is started: the socket is
\* closed, ListenAndServe returns the error, errHandler(err) is called.
ServeFail ==
    /\ lsnPc = "serving"
    /\ srvStarted
    /\ ListenerEnds("err")
    /\ bound' = FALSE
    /\ UNCHANGED <<lifeVars, srvStarted, stopLog, stopPc, served, hdlVars, memVars, now>>

\* The serve loop finds the server no longer started: the socket is closed and
\* ListenAndServe returns nil, so errHandler is not called.
ServeStop ==
    /\ lsnPc = "serving"
    /\ ~srvStarted
    /\ ListenerEnds("nil")
    /\ bound' = FALSE
    /\ UNCHANGED <<lifeVars, srvStarted, stopLog, stopPc, served, hdlVars, memVars, now>>

\* stopFn(): srv != nil, so srv.Shutdown(). A server that is not started
\* returns an error at once; otherwise started is cleared and Shutdown waits
\* for the serve loop to end.
StopCall ==
    /\ startResult = "ok"
    /\ stopPc = "idle"
    /\ Len(stopLog) < MaxStops
    /\ IF srvStarted
       THEN /\ srvStarted' = FALSE
            /\ stopPc' = "draining"
            /\ UNCHANGED stopLog
       ELSE /\ stopLog' = Append(stopLog, "not started")
            /\ UNCHANGED <<srvStarted, stopPc>>
    /\ UNCHANGED <<lifeVars, lsnPc, lsnErr, bound, errHandlerCalls, served,
                   hdlVars, memVars, now>>

\* Shutdown returns nil once the serve loop has ended.
StopReturn ==
    /\ stopPc = "draining"
    /\ lsnPc = "exited"
    /\ stopLog' = Append(stopLog, "nil")
    /\ stopPc' = "idle"
    /\ UNCHANGED <<lifeVars, lsnPc, lsnErr, srvStarted, bound, errHandlerCalls, served,
                   hdlVars, memVars, now>>

Listener == ListenBind \/ ServeFail \/ ServeStop \/ StopCall \/ StopReturn


\* ------------------------------------------------------ SecHandler.ServeDNS

\* The test without its comparison of the type.
IsTypeAAnyType(r) == Len(r.question) > 0
\* len(r.Question) > 0 && r.Question[0].Qtype == dns.TypeA
IsTypeA(r) == Len(r.question) > 0 /\ r.question[1].qtype = TypeA

\* requestedName := r.Question[0].Name
RequestedName(r) == r.question[1].name

\* The comparison with the hostname written without its final dot.
IsHostNameNoDot(r) == RequestedName(r) = "cloudflare-dns.com"
\* r.Question[0].Name == CLOUDFLARE_DOH_HOST
IsHostName(r) == RequestedName(r) = CLOUDFLARE_DOH_HOST

\* ServeDNS without the branch for the upstream hostname.
BranchNoShortcut(r, found) ==
    IF IsTypeA(r)
    THEN IF found THEN "hit" ELSE "miss"
    ELSE "relay"
\* The branch ServeDNS takes for request r when the cache lookup (made only
\* on the branch that has one) answers found.
Branch(r, found) ==
    IF IsTypeA(r)
    THEN IF IsHostName(r) THEN "host"
         ELSE IF found THEN "hit" ELSE "miss"
    ELSE "relay"

\* The lookup with its comparison of the expiration inverted.
CacheFoundInverted(cache, k, t) == cache[k] # NoItem /\ t > cache[k].exp
\* cache.Get(k): the item of k, found unless it is absent or now is past its
\* expiration.
CacheFound(cache, k, t) == cache[k] # NoItem /\ ~(t > cache[k].exp)

\* A write that replaces the item of k and keeps the expiration k had.
CacheSetDefaultKeepsFirst(cache, k, obj, t) ==
    [cache EXCEPT ![k] = [obj |-> obj,
                          exp |-> IF cache[k] = NoItem THEN t + CacheWindow ELSE cache[k].exp]]
\* cache.SetDefault(k, x): the item replaces the one of k and expires one
\* default window after now.
CacheSetDefault(cache, k, obj, t) ==
    [cache EXCEPT ![k] = [obj |-> obj, exp |-> t + CacheWindow]]

\* The message a handler's target names.
Deref(tg) == IF tg = 0 THEN Host ELSE resp[tg]

\* The transaction id of the datagram handler q serves.
QueryId(q) == q

\* dns.HandleFailed(w, r): a fresh message, SetRcode(r, RcodeServerFailure).
FailureReply(r) ==
    Msg(r.id, IF Len(r.question) > 0 THEN <<r.question[1]>> ELSE <<>>, "none", "SERVFAIL")

\* The reply the upstream returns for request r with answer data an.
UpstreamReply(r, an) == Msg(r.id, r.question, an, "NOERROR")

\* The serve loop reads a datagram and starts a goroutine for it: the k-th
\* datagram is served by handler k.
Receive(q) ==
    /\ lsnPc = "serving"
    /\ srvStarted
    /\ pc[q] = "idle"
    /\ \A p \in Slots : p < q => pc[p] # "idle"
    /\ \E qs \in QuestionLists :
          query' = [query EXCEPT ![q] = Msg(QueryId(q), qs, "none", "query")]
    /\ pc' = [pc EXCEPT ![q] = "serve"]
    /\ startedBefore' = [startedBefore EXCEPT ![q] = {p \in Slots : pc[p] # "idle"}]
    /\ doneBefore' = [doneBefore EXCEPT ![q] = {p \in Slots : pc[p] = "done"}]
    /\ served' = (served \/ Len(stopLog) > 0)
    /\ UNCHANGED <<lifeVars, lsnPc, lsnErr, srvStarted, bound, errHandlerCalls, stopLog, stopPc,
                   path, target, result, written, calls, gets, sets, steps, getAt, setAt,
                   memVars, now>>

\* ServeDNS from its entry to the branch it takes; on the branch of an A-type
\* question for another name this is s.NameCache.Get(requestedName).
ServeEntry(q) ==
    /\ pc[q] = "serve"
    /\ LET r == query[q]
           lookup == Branch(r, FALSE) = "miss"
           found == lookup /\ CacheFound(NameCache, RequestedName(r), now)
           br == Branch(r, found)
       IN /\ path' = [path EXCEPT ![q] = br]
          /\ gets' = [gets EXCEPT ![q] = IF lookup THEN @ + 1 ELSE @]
          /\ getAt' = [getAt EXCEPT ![q] = IF lookup THEN now ELSE @]
          /\ target' = [target EXCEPT ![q] =
                           IF br = "hit" THEN NameCache[RequestedName(r)].obj ELSE 0]
          /\ pc' = [pc EXCEPT ![q] = IF br \in {"host", "hit"} THEN "setId" ELSE "query"]
    /\ UNCHANGED <<lifeVars, srvVars, query, result, written, calls, sets, steps,
                   startedBefore, doneBefore, setAt, memVars, now>>

\* r.Pack() taken to succeed on every request.
PacksAnything(r) == TRUE
\* r.Pack() succeeds unless the request holds what the wire format rejects.
Packs(r) == \A k \in 1..Len(r.question) : r.question[k].name # BadName

\* ServeDNS storing the result before it looks at err.
AfterQueryStoreFirst(br, res) ==
    IF br = "miss" THEN "store"
    ELSE IF res = "ok" THEN "setId" ELSE "failed"
\* Where ServeDNS goes when QueryOverHTTPS has returned res on branch br.
AfterQuery(br, res) ==
    IF res = "ok"
    THEN IF br = "miss" THEN "store" ELSE "setId"
    ELSE "failed"

\* QueryOverHTTPS up to the POST: r.Pack(), and when it succeeds the request
\* of makeHttpsRequest is sent.
QuerySend(q) ==
    /\ pc[q] = "query"
    /\ LET packed == Packs(query[q]) IN
          IF packed
          THEN /\ steps' = [steps EXCEPT ![q] = <<"pack", "post">>]
               /\ calls' = [calls EXCEPT ![q] = @ + 1]
               /\ pc' = [pc EXCEPT ![q] = "wait"]
               /\ UNCHANGED result
          ELSE /\ steps' = [steps EXCEPT ![q] = <<"pack">>]
               /\ result' = [result EXCEPT ![q] = "pack error"]
               /\ pc' = [pc EXCEPT ![q] = AfterQuery(path[q], "pack error")]
               /\ UNCHANGED calls
    /\ UNCHANGED <<lifeVars, srvVars, query, path, target, written, gets, sets,
                   startedBefore, doneBefore, getAt, setAt, memVars, now>>

\* What makeHttpsRequest can come back with.
HttpsOutcomes == {"ok", "transport error", "status error", "read error"}

\* The rest of QueryOverHTTPS with a POST that failed sent once more.
QueryReturnRetries(q) ==
    /\ pc[q] = "wait"
    /\ \E out \in HttpsOutcomes, unpacked \in BOOLEAN, an \in Answers :
          IF out = "ok"
          THEN /\ steps' = [steps EXCEPT ![q] = Append(@, "unpack")]
               /\ IF unpacked
                  THEN /\ resp' = [resp EXCEPT ![q] = UpstreamReply(query[q], an)]
                       /\ result' = [result EXCEPT ![q] = "ok"]
                       /\ target' = [target EXCEPT ![q] = q]
                       /\ pc' = [pc EXCEPT ![q] = AfterQuery(path[q], "ok")]
                  ELSE /\ result' = [result EXCEPT ![q] = "unpack error"]
                       /\ pc' = [pc EXCEPT ![q] = AfterQuery(path[q], "unpack error")]
                       /\ UNCHANGED <<resp, target>>
               /\ UNCHANGED calls
          ELSE IF calls[q] < 2
          THEN /\ calls' = [calls EXCEPT ![q] = @ + 1]
               /\ UNCHANGED <<steps, resp, target, result, pc>>
          ELSE /\ result' = [result EXCEPT ![q] = out]
               /\ pc' = [pc EXCEPT ![q] = AfterQuery(path[q], out)]
               /\ UNCHANGED <<steps, resp, target, calls>>
    /\ UNCHANGED <<lifeVars, srvVars, query, path, written, gets, sets,
                   startedBefore, doneBefore, getAt, setAt, Host, NameCache, now>>
\* The rest of QueryOverHTTPS: the POST comes back; a response with status 200
\* whose body was read is unpacked into a new message.
QueryReturn(q) ==
    /\ pc[q] = "wait"
    /\ \E out \in HttpsOutcomes, unpacked \in BOOLEAN, an \in Answers :
          IF out = "ok"
          THEN /\ steps' = [steps EXCEPT ![q] = Append(@, "unpack")]
               /\ IF unpacked
                  THEN /\ resp' = [resp EXCEPT ![q] = UpstreamReply(query[q], an)]
                       /\ result' = [result EXCEPT ![q] = "ok"]
                       /\ target' = [target EXCEPT ![q] = q]
                       /\ pc' = [pc EXCEPT ![q] = AfterQuery(path[q], "ok")]
                  ELSE /\ result' = [result EXCEPT ![q] = "unpack error"]
                       /\ pc' = [pc EXCEPT ![q] = AfterQuery(path[q], "unpack error")]
                       /\ UNCHANGED <<resp, target>>
          ELSE /\ result' = [result EXCEPT ![q] = out]
               /\ pc' = [pc EXCEPT ![q] = AfterQuery(path[q], out)]
               /\ UNCHANGED <<steps, resp, target>>
    /\ UNCHANGED <<lifeVars, srvVars, query, path, written, calls, gets, sets,
                   startedBefore, doneBefore, getAt, setAt, Host, NameCache, now>>

\* ServeDNS adding the message only when the name has no item yet.
CacheStoreIfAbsent(q) ==
    /\ pc[q] = "store"
    /\ LET k == RequestedName(query[q])
           absent == NameCache[k] = NoItem
       IN /\ NameCache' = IF absent THEN CacheSetDefault(NameCache, k, target[q], now)
                                    ELSE NameCache
          /\ sets' = [sets EXCEPT ![q] = IF absent THEN @ + 1 ELSE @]
          /\ setAt' = [setAt EXCEPT ![q] = IF absent THEN now ELSE @]
    /\ pc' = [pc EXCEPT ![q] = "setId"]
    /\ UNCHANGED <<lifeVars, srvVars, query, path, target, result, written, calls, gets, steps,
                   startedBefore, doneBefore, getAt, Host, resp, now>>
\* s.NameCache.SetDefault(requestedName, respMsg)
CacheStore(q) ==
    /\ pc[q] = "store"
    /\ NameCache' = CacheSetDefault(NameCache, RequestedName(query[q]), target[q], now)
    /\ sets' = [sets EXCEPT ![q] = @ + 1]
    /\ setAt' = [setAt EXCEPT ![q] = now]
    /\ pc' = [pc EXCEPT ![q] = "setId"]
    /\ UNCHANGED <<lifeVars, srvVars, query, path, target, result, written, calls, gets, steps,
                   startedBefore, doneBefore, getAt, Host, resp, now>>

\* The message tg names becomes m.
Store(tg, m) ==
    /\ Host' = IF tg = 0 THEN m ELSE Host
    /\ resp' = IF tg = 0 THEN resp ELSE [resp EXCEPT ![tg] = m]

\* SetReply(r), first half: dns.Id = request.Id ... dns.Rcode = RcodeSuccess
SetReplyId(q) ==
    /\ pc[q] = "setId"
    /\ Store(target[q], [Deref(target[q]) EXCEPT !.id = query[q].id, !.rcode = "NOERROR"])
    /\ pc' = [pc EXCEPT ![q] = "setQuestion"]
    /\ UNCHANGED <<lifeVars, srvVars, query, path, target, result, written, calls, gets, sets,
                   steps, startedBefore, doneBefore, getAt, setAt, NameCache, now>>

\* SetReply(r), second half: dns.Question = []Question{request.Question[0]}
\* when the request has a question.
SetReplyQuestion(q) ==
    /\ pc[q] = "setQuestion"
    /\ Store(target[q],
             IF Len(query[q].question) > 0
             THEN [Deref(target[q]) EXCEPT !.question = <<query[q].question[1]>>]
             ELSE Deref(target[q]))
    /\ pc' = [pc EXCEPT ![q] = "write"]
    /\ UNCHANGED <<lifeVars, srvVars, query, path, target, result, written, calls, gets, sets,
                   steps, startedBefore, doneBefore, getAt, setAt, NameCache, now>>

\* w.WriteMsg(msg): the message as it is now goes to the requester.
WriteMsg(q) ==
    /\ pc[q] = "write"
    /\ written' = [written EXCEPT ![q] = Append(@, Deref(target[q]))]
    /\ pc' = [pc EXCEPT ![q] = "done"]
    /\ UNCHANGED <<lifeVars, srvVars, query, path, target, result, calls, gets, sets,
                   steps, startedBefore, doneBefore, getAt, setAt, memVars, now>>

\* The err != nil branches logging the error and writing nothing.
HandleFailedSilent(q) ==
    /\ pc[q] = "failed"
    /\ pc' = [pc EXCEPT ![q] = "done"]
    /\ UNCHANGED <<lifeVars, srvVars, query, path, target, result, written, calls, gets, sets,
                   steps, startedBefore, doneBefore, getAt, setAt, memVars, now>>
\* The err != nil branches handing the error to errHandler and ending the
\* listener, as the goroutine of RunDNS does with the error of ListenAndServe.
HandleFailedFatal(q) ==
    /\ pc[q] = "failed"
    /\ written' = [written EXCEPT ![q] = Append(@, FailureReply(query[q]))]
    /\ pc' = [pc EXCEPT ![q] = "done"]
    /\ errHandlerCalls' = errHandlerCalls + 1
    /\ lsnPc' = "exited"
    /\ UNCHANGED <<lifeVars, lsnErr, srvStarted, bound, stopLog, stopPc, served,
                   query, path, target, result, calls, gets, sets,
                   steps, startedBefore, doneBefore, getAt, setAt, memVars, now>>
\* The err != nil branches: dns.HandleFailed(w, r).
HandleFailed(q) ==
    /\ pc[q] = "failed"
    /\ written' = [written EXCEPT ![q] = Append(@, FailureReply(query[q]))]
    /\ pc' = [pc EXCEPT ![q] = "done"]
    /\ UNCHANGED <<lifeVars, srvVars, query, path, target, result, calls, gets, sets,
                   steps, startedBefore, doneBefore, getAt, setAt, memVars, now>>

ServeDNS(q) ==
    \/ ServeEntry(q) \/ QuerySend(q) \/ QueryReturn(q) \/ CacheStore(q)
    \/ SetReplyId(q) \/ SetReplyQuestion(q) \/ WriteMsg(q) \/ HandleFailed(q)

\* ------------------------------------------------------------ time, janitor

\* Time passes. Only the cache reads the clock, so the clock starts with it.
Tick ==
    /\ handlerMade
    /\ now < MaxClock
    /\ now' = now + 1
    /\ UNCHANGED <<lifeVars, srvVars, hdlVars, memVars>>

\* The cache's janitor (cache.New's cleanup interval) deletes the items whose
\* expiration has passed.
Expired(cache, t) == {k \in CacheKeys : cache[k] # NoItem /\ t > cache[k].exp}

Janitor ==
    /\ handlerMade
    /\ Expired(NameCache, now) # {}
    /\ NameCache' = [k \in CacheKeys |->
                        IF k \in Expired(NameCache, now) THEN NoItem ELSE NameCache[k]]
    /\ UNCHANGED <<lifeVars, srvVars, hdlVars, Host, resp, now>>

\* ---------------------------------------------------------- specifications

\* The whole program.
Next ==
    \/ RunDNS
    \/ Listener
    \/ \E q \in Slots : Receive(q) \/ ServeDNS(q)
    \/ Tick
    \/ Janitor

Spec == Init /\ [][Next]_vars

\* The life of the server from the call of RunDNS to the end of the listener,
\* with LifeQueries datagrams served on the way.
LifeNext ==
    \/ RunDNS
    \/ Listener
    \/ \E q \in 1..LifeQueries : Receive(q) \/ ServeDNS(q)

LifeSpec == Init /\ [][LifeNext]_vars

\* RunDNS runs to its return: every exchange of getDohHostAddr ends (with a
\* reply or with the client's timeout) and every sleep ends.
FairLifeSpec == LifeSpec /\ WF_vars(RunDNS)

\* The state RunDNS and the listener goroutine reach when the first bootstrap
\* attempt succeeds and the socket is bound: the server serves, nothing has
\* been received yet.
Serving ==
    /\ startPc = "returned" /\ i = 0 /\ e = FALSE
    /\ \E addr \in HostAddrs : h = getDohHostAddr(TRUE, addr).r
    /\ bootLog = <<"ok">> /\ startResult = "ok" /\ handlerMade = TRUE
    /\ lsnPc = "serving" /\ lsnErr = "none" /\ srvStarted = TRUE /\ bound = TRUE
    /\ errHandlerCalls = 0 /\ stopLog = <<>> /\ stopPc = "idle" /\ served = FALSE
    /\ pc = [q \in Slots |-> "idle"]
    /\ query = [q \in Slots |-> NilMsg]
    /\ path = [q \in Slots |-> "none"]
    /\ target = [q \in Slots |-> 0]
    /\ result = [q \in Slots |-> "none"]
    /\ written = [q \in Slots |-> <<>>]
    /\ calls = [q \in Slots |-> 0]
    /\ gets = [q \in Slots |-> 0]
    /\ sets = [q \in Slots |-> 0]
    /\ steps = [q \in Slots |-> <<>>]
    /\ startedBefore = [q \in Slots |-> {}]
    /\ doneBefore = [q \in Slots |-> {}]
    /\ getAt = [q \in Slots |-> 0 - 1]
    /\ setAt = [q \in Slots |-> 0 - 1]
    /\ Host = h
    /\ resp = [q \in Slots |-> NilMsg]
    /\ NameCache = EmptyCache
    /\ now = 0

\* The started server: MaxQueries handler goroutines, the clock and the
\* cache's janitor.
ServeNext ==
    \/ \E q \in Slots : Receive(q) \/ ServeDNS(q)
    \/ Tick
    \/ Janitor

ServeSpec == Serving /\ [][ServeNext]_vars

\* The started server with its handlers, the serve loop's end and stopFn, the
\* clock standing still: what a query's handler and the listener do to each
\* other.
ShutNext ==
    \/ \E q \in Slots : Receive(q) \/ ServeDNS(q)
    \/ ServeFail
    \/ ServeStop
    \/ StopCall
    \/ StopReturn

ShutSpec == Serving /\ [][ShutNext]_vars

\* ------------------------------------------------------------------ claims

\* What the properties say of handler q, read off its request and history.
FirstIsA(q) == Len(query[q].question) > 0 /\ query[q].question[1].qtype = "A"
FirstName(q) == query[q].question[1].name
ForHost(q) == FirstIsA(q) /\ FirstName(q) = "cloudflare-dns.com."
ForOther(q) == FirstIsA(q) /\ FirstName(q) # "cloudflare-dns.com."
NotA(q) == pc[q] # "idle" /\ ~FirstIsA(q)
Done(q) == pc[q] = "done"
Failed(q) == result[q] \notin {"none", "ok"}
\* The A-type queries for q's name that were dispatched before q.
EarlierSameName(q) ==
    {p \in startedBefore[q] : ForOther(p) /\ FirstName(p) = FirstName(q)}

\* The bootstrap attempts made, and those of them that failed.
Attempts == {k \in 1..Len(bootLog) : bootLog[k] \in {"ok", "fail"}}
Failures == {k \in 1..Len(bootLog) : bootLog[k] = "fail"}
BootSucceeded == Len(bootLog) > 0 /\ bootLog[Len(bootLog)] = "ok"
BootOver == startPc \notin {"idle", "resolve", "sleep", "retry"}

\* p is the first A-type query for a name other than the upstream's, it was
\* forwarded with success and had finished when q, the second query for that
\* name, was dispatched; q looked the name up less than the cache window after
\* p stored it, and has finished.
C1Case(p, q) ==
    /\ p # q /\ ForOther(p) /\ ForOther(q) /\ FirstName(p) = FirstName(q)
    /\ EarlierSameName(p) = {} /\ EarlierSameName(q) = {p}
    /\ result[p] = "ok" /\ p \in doneBefore[q] /\ Done(q)
    /\ getAt[q] - setAt[p] < CacheWindow

\* C1: the second query for a name, handled after the first one (forwarded
\* with success) has completed and before the cache window has elapsed, is
\* answered with the answer data of the first reply and makes no upstream
\* HTTPS call of its own.
C1_SecondFromCache ==
    \A p \in Slots, q \in Slots :
        C1Case(p, q) =>
            /\ calls[q] = 0
            /\ Len(written[p]) = 1 /\ Len(written[q]) = 1
            /\ written[q][1].answer = written[p][1].answer

\* C1 happens: the second query came a tick after the first one's store.
C1_Witness ==
    \E p \in Slots, q \in Slots : C1Case(p, q) /\ getAt[q] = setAt[p] + 1

\* C2: a handler serving an A-type query for the upstream hostname makes no
\* upstream call, runs no step of QueryOverHTTPS, neither reads nor writes
\* NameCache, and the one reply it writes carries the answer data of the
\* bootstrap record.
C2_HostShortcut ==
    \A q \in Slots :
        ForHost(q) =>
            /\ calls[q] = 0 /\ steps[q] = <<>>
            /\ gets[q] = 0 /\ sets[q] = 0
            /\ Done(q) => /\ Len(written[q]) = 1
                          /\ written[q][1].answer = h.answer

\* C2 happens with an empty cache and a failing upstream.
C2_Witness ==
    \E q \in Slots, p \in Slots :
        /\ ForHost(q) /\ Done(q)
        /\ NameCache = EmptyCache
        /\ result[p] \in {"transport error", "status error"}

\* In every state: a handler whose exchange failed has stored nothing, and
\* once finished has written exactly the failure reply for its request.
C3State ==
    \A q \in Slots :
        Failed(q) =>
            /\ sets[q] = 0
            /\ Done(q) => /\ Len(written[q]) = 1
                          /\ written[q][1].rcode = "SERVFAIL"
                          /\ written[q][1].id = query[q].id
                          /\ written[q][1].answer = "none"

\* In every step: a handler's step changes the cache only when its exchange
\* succeeded.
C3Step ==
    \A q \in Slots :
        (pc'[q] # pc[q] /\ NameCache' # NameCache) => result[q] = "ok"

\* C3: when the upstream exchange for a query fails, of whatever kind and
\* whatever the query's type, the handler writes a failure reply and none of
\* its steps changes the cache.
C3_FailureStoresNothing == []C3State /\ [][C3Step]_vars

\* C3 happens: an A-type query failed while the cache held an item.
C3_Witness ==
    \E q \in Slots :
        Failed(q) /\ Done(q) /\ FirstIsA(q) /\ NameCache # EmptyCache

\* The reply a finished handler wrote is of the kind its branch prescribes.
C4Kind(q) ==
    LET m == written[q][1] IN
    /\ Failed(q) <=> m.rcode = "SERVFAIL"
    /\ path[q] = "host" => m.answer = h.answer
    /\ (path[q] # "host" /\ ~Failed(q)) => m.answer \in Answers

\* C4: a handler writes at most one message, has written exactly one (the
\* self-host, cached, forwarded or failure reply of its branch) when it ends,
\* and until then can always take its next step.
C4_ExactlyOneWrite ==
    \A q \in Slots :
        /\ Len(written[q]) <= 1
        /\ Len(written[q]) = 1 <=> Done(q)
        /\ Done(q) => C4Kind(q)
        /\ pc[q] \notin {"idle", "done"} => ENABLED ServeDNS(q)

\* C4 happens: one handler wrote a cached reply, another a forwarded one.
C4_Witness ==
    \E q \in Slots, p \in Slots :
        /\ Done(q) /\ path[q] = "hit"
        /\ Done(p) /\ path[p] = "miss" /\ result[p] = "ok"

\* A query with no question or a first question of another type than A takes
\* the forward path and neither reads nor writes the cache.
C5Relay(q) ==
    (NotA(q) /\ pc[q] # "serve") => path[q] = "relay" /\ gets[q] = 0 /\ sets[q] = 0

\* p and q are two identical non-A queries, both handled.
C5Pair(p, q) ==
    /\ p # q /\ NotA(p) /\ NotA(q) /\ Done(p) /\ Done(q)
    /\ query[p].question = query[q].question

\* C5 as stated: non-A queries take the forward path and never touch the
\* cache, and two identical non-A queries produce two upstream HTTPS calls.
C5_AsStated ==
    /\ \A q \in Slots : C5Relay(q)
    /\ \A p \in Slots, q \in Slots : C5Pair(p, q) => calls[p] + calls[q] = 2

\* C5 amended: non-A queries take the forward path and never touch the cache,
\* and each one makes exactly one upstream HTTPS call of its own unless its
\* encoding fails, in which case it makes none.
C5_OneCallEach ==
    /\ \A q \in Slots : C5Relay(q)
    /\ \A q \in Slots :
          (NotA(q) /\ Done(q)) =>
              calls[q] = (IF result[q] = "pack error" THEN 0 ELSE 1)
    /\ \A p \in Slots, q \in Slots :
          (C5Pair(p, q) /\ result[p] # "pack error") => calls[p] + calls[q] = 2

\* C5 happens: two identical non-A queries were forwarded, one call each.
C5_Witness ==
    \E p \in Slots, q \in Slots :
        C5Pair(p, q) /\ Len(query[p].question) > 0 /\ calls[p] = 1 /\ calls[q] = 1

\* In every state: a key of the cache is the name of an A-type query, not the
\* upstream hostname, whose exchange succeeded.
C6State ==
    \A k \in CacheKeys :
        NameCache[k] # NoItem =>
            /\ k # "cloudflare-dns.com."
            /\ \E q \in Slots :
                  FirstIsA(q) /\ FirstName(q) = k /\ result[q] = "ok" /\ sets[q] = 1

\* In every step: an item is put in the cache only by the store of such a
\* query's handler.
C6Step ==
    \A k \in CacheKeys :
        (NameCache'[k] # NameCache[k] /\ NameCache'[k] # NoItem) =>
            \E q \in Slots :
                /\ pc[q] = "store" /\ pc'[q] # "store"
                /\ FirstIsA(q) /\ FirstName(q) = k /\ result[q] = "ok"

\* C6: every key of NameCache is the question name of an A-type query, other
\* than the upstream hostname, whose upstream exchange succeeded, and nothing
\* else inserts into the cache.
C6_OnlyForwardedA == []C6State /\ [][C6Step]_vars

\* C6 happens: the cache holds an item.
C6_Witness ==
    \E k \in CacheKeys, q \in Slots :
        NameCache[k] # NoItem /\ FirstIsA(q) /\ FirstName(q) = k /\ Done(q)

\* In every state: at most 6 attempts; attempts and sleeps alternate, starting
\* with an attempt, so each retry and nothing else is preceded by one sleep;
\* a successful attempt is the last entry.
C7State ==
    /\ Cardinality(Attempts) <= 6
    /\ \A k \in 1..Len(bootLog) :
          /\ (k % 2 = 1) <=> (k \in Attempts)
          /\ (k % 2 = 0) <=> (bootLog[k] = "sleep")
          /\ bootLog[k] = "ok" => k = Len(bootLog)
    /\ BootOver => (BootSucceeded \/ Cardinality(Failures) = 6)

\* C7: bootstrap makes at most 6 attempts, sleeps once before each retry and
\* only then, makes no attempt after a successful one, and comes to an end.
C7_BoundedBootstrap == []C7State /\ <>BootOver

\* C7 happens: the sixth attempt, after five sleeps, succeeded.
C7_Witness ==
    BootOver /\ BootSucceeded /\ Cardinality(Attempts) = 6 /\ Len(bootLog) = 11

\* C8: once all 6 attempts have failed RunDNS returns an error and no stop
\* function, and neither the handler and its cache, nor the listener, nor a
\* call of errHandler ever exist; RunDNS returns an error in that case only.
C8_BootstrapFailure ==
    /\ Cardinality(Failures) = 6 =>
          /\ startResult # "ok"
          /\ startPc = "returned" => startResult = "error"
          /\ ~handlerMade /\ Host = NilMsg
          /\ lsnPc = "none" /\ ~bound /\ ~srvStarted
          /\ errHandlerCalls = 0
          /\ stopLog = <<>> /\ stopPc = "idle"
    /\ startResult = "error" => (Cardinality(Failures) = 6 /\ ~BootSucceeded)

\* C8 happens: RunDNS returned the error.
C8_Witness == startResult = "error" /\ startPc = "returned"

\* The Server State of the specification, read off the program's state.
ServerState ==
    IF startPc = "idle" THEN "Stopped"
    ELSE IF startResult = "error" \/ lsnPc = "exited" THEN "Stopped"
    ELSE IF lsnPc = "serving" THEN (IF srvStarted THEN "Running" ELSE "ShuttingDown")
    ELSE "Starting"

\* Its place in the order Stopped, Starting, Running, ShuttingDown, Stopped.
Phase ==
    IF startPc = "idle" THEN 0
    ELSE IF ServerState = "Starting" THEN 1
    ELSE IF ServerState = "Running" THEN 2
    ELSE IF ServerState = "ShuttingDown" THEN 3
    ELSE 4

\* In every state: a query is served, and RunDNS has returned a stop
\* function, only after a bootstrap attempt succeeded; RunDNS has returned
\* only after bootstrap came to its end.
C9State ==
    /\ (\E q \in Slots : pc[q] # "idle") => BootSucceeded
    /\ ServerState \in {"Running", "ShuttingDown"} =>
          (BootSucceeded /\ h # NilMsg /\ Host.answer = h.answer)
    /\ startResult # "none" => BootOver
    /\ startResult = "ok" => BootSucceeded

\* In every step: the server never goes back in the order, Running is entered
\* from Starting only and with a resolved record, ShuttingDown from Running
\* only, and no attempt is made once bootstrap is over.
C9Step ==
    /\ Phase' >= Phase
    /\ (ServerState' = "Running" /\ ServerState # "Running") =>
          (ServerState = "Starting" /\ BootSucceeded /\ h # NilMsg /\ ~e)
    /\ (ServerState' = "ShuttingDown" /\ ServerState # "ShuttingDown") =>
          ServerState = "Running"
    /\ BootOver => bootLog' = bootLog

\* C9: the server moves through Stopped, Starting, Running, ShuttingDown,
\* Stopped in that order only; no query is served before a bootstrap attempt
\* succeeded, bootstrap is over before RunDNS returns, and Running is entered
\* from Starting with a resolved Upstream Host Record.
C9_LifecycleOrder == []C9State /\ [][C9Step]_vars

\* C9 happens: the server went all the way round and served a query.
C9_Witness ==
    /\ ServerState = "Stopped" /\ lsnErr = "nil" /\ stopLog = <<"nil">>
    /\ \E q \in Slots : Done(q)

\* C10 as stated: whenever errHandler has been called, RunDNS has already
\* returned a stop function and a nil error.
C10_AsStated == errHandlerCalls > 0 => startResult = "ok"

\* C10 amended: errHandler is called at most once, exactly when
\* ListenAndServe has returned an error, and only after a successful
\* bootstrap in a run of RunDNS that returns, or has returned, a stop function
\* and a nil error; the call may come before that return.
C10_ListenerFailure ==
    /\ errHandlerCalls <= 1
    /\ errHandlerCalls = 1 <=> lsnErr = "err"
    /\ lsnErr = "err" => lsnPc = "exited"
    /\ lsnPc # "none" =>
          /\ BootSucceeded
          /\ startPc \in {"return", "returned"}
          /\ startResult = (IF startPc = "returned" THEN "ok" ELSE "none")

\* C10 happens: the bind failed after RunDNS had returned.
C10_Witness == errHandlerCalls = 1 /\ startResult = "ok" /\ ~bound /\ lsnErr = "err"

\* The reply handler q wrote carries the transaction id of q's request and,
\* when the request has one, its first question.
RepliesTo(q) ==
    LET m == written[q][1] IN
    /\ m.id = query[q].id
    /\ Len(query[q].question) > 0 =>
          (Len(m.question) > 0 /\ m.question[1] = query[q].question[1])

\* C11: every reply written on the cache path, after a hit or after a miss
\* and the store that follows it, carries the transaction id and the question
\* of the query it answers, however the handlers interleave.
C11_AsStated ==
    \A q \in Slots :
        (Done(q) /\ path[q] \in {"hit", "miss"} /\ ~Failed(q)) => RepliesTo(q)

\* The request of handler q holds what r.Pack() rejects.
Unpackable(q) ==
    \E j \in 1..Len(query[q].question) : query[q].question[j].name = "unpackable."

\* p and q are two A-type queries for the same name that both looked the name
\* up at the same time and both missed, so that neither had written the cache
\* when the other read it; both have been handled.
C12Herd(p, q) ==
    /\ p # q /\ ForOther(p) /\ ForOther(q) /\ FirstName(p) = FirstName(q)
    /\ path[p] = "miss" /\ path[q] = "miss" /\ getAt[p] = getAt[q]
    /\ Done(p) /\ Done(q)

\* C12 as stated: every A-type query that observes a cache miss issues its own
\* upstream HTTPS call, and N queries that miss together produce N upstream
\* calls and N cache writes.
C12_AsStated ==
    /\ \A q \in Slots : (path[q] = "miss" /\ Done(q)) => calls[q] = 1
    /\ \A p \in Slots, q \in Slots :
          C12Herd(p, q) => (calls[p] + calls[q] = 2 /\ sets[p] + sets[q] = 2)

\* C12 amended: every A-type query that observes a cache miss and whose
\* request can be encoded issues its own upstream HTTPS call, and writes the
\* cache once exactly when its exchange succeeded; queries that miss together
\* and all succeed produce as many calls and as many cache writes as there are
\* queries.
C12_NotCoalesced ==
    /\ \A q \in Slots :
          (path[q] = "miss" /\ Done(q)) =>
              /\ calls[q] = (IF Unpackable(q) THEN 0 ELSE 1)
              /\ sets[q] = (IF result[q] = "ok" THEN 1 ELSE 0)
    /\ \A p \in Slots, q \in Slots :
          (C12Herd(p, q) /\ result[p] = "ok" /\ result[q] = "ok") =>
              (calls[p] + calls[q] = 2 /\ sets[p] + sets[q] = 2)

\* C12 happens: two queries for one name missed together, both exchanges
\* succeeded, and each made its call and its cache write.
C12_Witness ==
    \E p \in Slots, q \in Slots :
        /\ C12Herd(p, q) /\ result[p] = "ok" /\ result[q] = "ok"
        /\ calls[p] = 1 /\ calls[q] = 1 /\ sets[p] = 1 /\ sets[q] = 1

\* Handler q has called QueryOverHTTPS and the call has returned.
Returned(q) == pc[q] \in {"store", "setId", "setQuestion", "write", "failed", "done"}
                 /\ path[q] \in {"miss", "relay"}

\* The steps of QueryOverHTTPS in their order, and the errors of the exchange.
C13Order == <<"pack", "post", "unpack">>
C13ExchangeErrors == {"transport error", "status error", "read error"}

\* C13: QueryOverHTTPS runs encode, HTTPS exchange and decode in that order
\* and returns the error of the first step that fails: no exchange when the
\* encoding fails, no decoding when the exchange fails, and a reply only when
\* all three steps succeeded.
C13_FirstErrorWins ==
    \A q \in Slots :
        /\ Len(steps[q]) <= 3 /\ steps[q] = SubSeq(C13Order, 1, Len(steps[q]))
        /\ calls[q] = (IF Len(steps[q]) >= 2 THEN 1 ELSE 0)
        /\ Returned(q) =>
              /\ Unpackable(q) <=> result[q] = "pack error"
              /\ result[q] = "pack error" => steps[q] = <<"pack">>
              /\ result[q] \in C13ExchangeErrors => steps[q] = <<"pack", "post">>
              /\ result[q] \in {"unpack error", "ok"} => steps[q] = C13Order
              /\ result[q] \in {"pack error", "unpack error", "ok"} \cup C13ExchangeErrors
        /\ resp[q] # NilMsg => (result[q] = "ok" /\ steps[q] = C13Order)
        /\ (Returned(q) /\ result[q] = "ok") => resp[q] # NilMsg

\* C13 happens: one QueryOverHTTPS failed at the encoding and made no
\* exchange, another failed at the exchange and decoded nothing.
C13_Witness ==
    \E p \in Slots, q \in Slots :
        /\ Returned(p) /\ Unpackable(p) /\ steps[p] = <<"pack">> /\ calls[p] = 0
        /\ Returned(q) /\ result[q] = "status error" /\ steps[q] = <<"pack", "post">>

\* The handlers that have written the cache for name k, and the time of the
\* most recent of their writes (the clock never goes back).
Writers(k) == {q \in Slots : sets[q] = 1 /\ FirstIsA(q) /\ FirstName(q) = k}
LastWrite(k) == CHOOSE t \in {setAt[q] : q \in Writers(k)} :
                    \A q \in Writers(k) : setAt[q] <= t

\* In every state: an item the cache holds expires one window after the most
\* recent write for its name, whatever hits and writes came before.
C14State ==
    \A k \in CacheKeys :
        NameCache[k] # NoItem =>
            (Writers(k) # {} /\ NameCache[k].exp = LastWrite(k) + CacheWindow)

\* Handler q's step is its Get for the name of an A-type query.
C14Get(q) == pc[q] = "serve" /\ pc'[q] # "serve" /\ ForOther(q)

\* The name k was written, and the time elapsed since its most recent write.
C14Written(k) == Writers(k) # {}
C14Elapsed(k) == now - LastWrite(k)

\* In every step, as stated: a Get finds the name exactly when it was written
\* and less than the window has elapsed since its most recent write, and
\* leaves the cache as it was.
C14StepAsStated ==
    \A q \in Slots :
        C14Get(q) =>
            LET k == FirstName(q) IN
            /\ NameCache' = NameCache
            /\ path'[q] = "hit" <=> (C14Written(k) /\ C14Elapsed(k) < CacheWindow)

\* C14 as stated: a cache entry is found by Get exactly while less than the
\* fixed window has elapsed since the most recent write for its name; a hit
\* does not extend the expiry, and a later write restarts the window.
C14_AsStated == []C14State /\ [][C14StepAsStated]_vars

\* In every step: a Get finds the name exactly when it was written and no
\* more than the window has elapsed since its most recent write, misses
\* otherwise, and leaves the cache as it was.
C14Step ==
    \A q \in Slots :
        C14Get(q) =>
            LET k == FirstName(q) IN
            /\ gets'[q] = gets[q] + 1
            /\ NameCache' = NameCache
            /\ path'[q] \in {"hit", "miss"}
            /\ path'[q] = "hit" <=> (C14Written(k) /\ C14Elapsed(k) <= CacheWindow)

\* C14 amended: a cache entry is found by Get exactly while no more than the
\* fixed window has elapsed since the most recent write for its name; a hit
\* does not extend the expiry, and a later write for the same name restarts
\* the window.
C14_WindowSinceLastWrite == []C14State /\ [][C14Step]_vars

\* C14 happens: a name was written twice, the second time later than the
\* first, and its item expires one window after the second write.
C14_Witness ==
    \E p \in Slots, q \in Slots :
        /\ FirstIsA(q) /\ sets[q] = 1 /\ p \in Writers(FirstName(q))
        /\ setAt[p] < setAt[q]
        /\ NameCache[FirstName(q)].exp = setAt[q] + CacheWindow

\* What holds of a query whose POST came back with a status other than 200:
\* it ended in an error, no bytes were decoded and no message came of it.
C15StatusIsError(q) ==
    result[q] = "status error" =>
        /\ steps[q] = <<"pack", "post">>
        /\ resp[q] = NilMsg
        /\ Done(q) => (Len(written[q]) = 1 /\ written[q][1].rcode = "SERVFAIL")

\* C15 as stated: each query that takes the forward path causes exactly one
\* POST to the upstream, with no retry after a failure, and a response whose
\* status is not success is returned as an error, never as response bytes.
C15_AsStated ==
    \A q \in Slots :
        /\ calls[q] <= 1
        /\ Returned(q) => calls[q] = 1
        /\ C15StatusIsError(q)

\* C15 amended: each query that takes the forward path causes at most one
\* POST to the upstream, exactly one when its request can be encoded and none
\* when it cannot, with no retry after a failure; a response whose status is
\* not success is returned as an error, never as response bytes.
C15_SinglePost ==
    \A q \in Slots :
        /\ calls[q] <= 1
        /\ Returned(q) => calls[q] = (IF Unpackable(q) THEN 0 ELSE 1)
        /\ (Returned(q) /\ Failed(q)) => pc[q] \in {"failed", "done"}
        /\ C15StatusIsError(q)

\* C15 happens: a forwarded query's single POST came back with a status other
\* than 200, and the query was answered with a failure after that one POST.
C15_Witness ==
    \E q \in Slots :
        /\ Returned(q) /\ Done(q) /\ result[q] = "status error" /\ calls[q] = 1
        /\ written[q][1].rcode = "SERVFAIL"

\* What handler p holds of its own query, and the state of the listener.
C16Own(p) == <<pc[p], query[p], path[p], target[p], result[p], written[p],
               calls[p], gets[p], sets[p], steps[p]>>
C16Server == <<lsnPc, lsnErr, srvStarted, bound, errHandlerCalls, stopLog, stopPc>>

\* In every state: a query that failed went through QueryOverHTTPS, left no
\* message and no cache item behind and no handler holds anything of it; and
\* every query in flight can take its next step, whatever failed or stopped
\* around it.
C16State ==
    \A q \in Slots :
        /\ Failed(q) =>
              /\ path[q] \in {"miss", "relay"}
              /\ sets[q] = 0 /\ resp[q] = NilMsg
              /\ \A k \in CacheKeys : NameCache[k] # NoItem => NameCache[k].obj # q
              /\ \A p \in Slots : target[p] # q
        /\ pc[q] \notin {"idle", "done"} => ENABLED ServeDNS(q)

\* In every step of a handler: the listener is as it was, errHandler is not
\* called, the other handlers hold what they held, a failure once returned
\* stays, and the shared messages and the cache change only in the step of a
\* query that is answered from the host record, from the cache or from a
\* successful exchange.
C16Step ==
    \A q \in Slots :
        (pc[q] # "idle" /\ pc'[q] # pc[q]) =>
            /\ C16Server' = C16Server
            /\ \A p \in Slots \ {q} : C16Own(p)' = C16Own(p)
            /\ Failed(q) => result'[q] = result[q]
            /\ memVars' # memVars => (result'[q] = "ok" \/ path'[q] \in {"host", "hit"})

\* C16: a per-query failure never terminates the service and never changes
\* the outcome of another in-flight query: the failing handler changes neither
\* the listener nor errHandler's calls nor anything another handler reads.
C16_FailureContained == []C16State /\ [][C16Step]_vars

\* C16 happens: q was received while p was in flight and failed; the server
\* still serves, errHandler was not called, and p got the reply to its own
\* query.
C16_Witness ==
    \E p \in Slots, q \in Slots :
        /\ p \in startedBefore[q] \ doneBefore[q]
        /\ Failed(q) /\ Done(q) /\ Done(p) /\ result[p] = "ok" /\ RepliesTo(p)
        /\ lsnPc = "serving" /\ srvStarted /\ errHandlerCalls = 0

\* C17: the self-host shortcut and the cache are used only for queries that
\* consist of a single question of type A; a query carrying more than one
\* question is forwarded upstream and its result is not cached.
C17_AsStated ==
    \A q \in Slots :
        pc[q] \notin {"idle", "serve"} =>
            /\ (path[q] \in {"host", "hit"} \/ gets[q] > 0 \/ sets[q] > 0) =>
                  (Len(query[q].question) = 1 /\ FirstIsA(q))
            /\ Len(query[q].question) > 1 =>
                  (path[q] = "relay" /\ gets[q] = 0 /\ sets[q] = 0)

\* C18: once stopFn has been invoked and has returned, the listener is not
\* serving and never serves a query afterwards, whenever after RunDNS's
\* return stopFn was invoked, also before the goroutine began to listen.
C18_AsStated ==
    Len(stopLog) > 0 => (~(lsnPc = "serving" /\ srvStarted) /\ ~served)

\* C19: every reply written by the self-host shortcut carries the transaction
\* id of the query it answers, however the handlers of concurrent queries for
\* the upstream hostname, which all rewrite the one shared host record before
\* they write it, interleave.
C19_AsStated ==
    \A q \in Slots :
        (Done(q) /\ path[q] = "host") =>
            (Len(written[q]) = 1 /\ written[q][1].id = query[q].id)
====
